---- MODULE Spec2Model ----
(***************************************************************************)
(* Model of the policy-server bootstrap sequencer (src/src/main.rs) and of *)
(* the three concurrency domains it stages: the sequencer on the main     *)
(* thread, the Kubernetes poller thread and the worker-pool thread.       *)
(* The bodies of WorkerPool, Poller and the HTTP server are not part of   *)
(* main.rs; they are modelled from the specification (sections 4.1-4.7).  *)
(***************************************************************************)
EXTENDS Naturals, Sequences, FiniteSets

\* ---------------------------------------------------------------- bounds
MaxPolicies == 2
MaxKeys == 2
MaxWorkers == 2
MaxRequests == 2
WorkerQueueCapacity == 1
ChanRequests == 34
PoolRequests == 4
MaxPolls == 8
MaxPatchOps == 2
MaxConsecutiveFailures == 5

\* mpsc::channel::<EvalRequest>(32)
ApiChannelCapacity == 32

None == "none"
Digests == {"sha256:a", "sha256:b"}
Urls == <<"registry://p1", "registry://p2", "registry://p3", "registry://p4">>
Requests == 1..MaxRequests
Threads == {"main", "kube_poller_thread", "wasm_thread"}

\* PathBuf::default(): the module path before the fetch assigns it
EmptyPath == <<>>
\* fetched_policy.local_path: the file the fetcher wrote in the download dir
LocalPath(url) == <<"policies-download-dir", url>>

\* The locals fetched_policy and bootstrap_data while they hold nothing: no
\* policy is fetched in this iteration, the boot request is not built yet
NoFetchedPolicy == [uri |-> "", local_path |-> EmptyPath, digest |-> None]
NoBootstrapData == [policies |-> <<>>, pool_size |-> 0]

\* cli::policies(&matches): n policies, unique names, no local path yet
PolicySet(n) ==
    [i \in 1..n |-> [name |-> i, url |-> Urls[i], wasm_module_path |-> EmptyPath]]

VARIABLES
    \* ---- configuration read from the command line (main.rs 32-70)
    policies,                   \* name -> policy (url, wasm_module_path)
    verify_enabled,             \* --enable-verification / env
    verification_keys,          \* number of configured verification keys
    cert_file,                  \* "" when TLS is not configured
    pool_size,                  \* --workers
    cli,                        \* the command line and the environment
    metrics_enabled,            \* --enable-metrics / env
    verification_settings,      \* Option<VerificationSettings>: "None" | "Some"
    config_error,               \* the cli step that rejected the configuration
    \* ---- position of each thread: the sequencer on "main" (the async
    \*      block of main, then the joins) and the two system threads
    pc,
    policy_idx,                 \* policy the download loop is at
    key_idx,                    \* keys already verified for that policy
    verified_manifest_digest,   \* Option<String>
    fetched_policy,             \* result of the fetch of the current policy
    \* ---- oneshot channels of the two boot requests and their replies
    kube_poller_bootstrap_req,  \* "empty" | "sent" | "received" | "rx_dropped"
    kube_poller_bootstrap_res,  \* "none" | "empty" | "ok" | "err" | "closed"
    worker_pool_bootstrap_req,
    worker_pool_bootstrap_res,
    bootstrap_data,             \* WorkerPoolBootRequest payload, once sent
    \* ---- evaluation request channel, workers, reply handles
    api_rx,                     \* queue of the mpsc channel
    api_tx_dropped,             \* the server's sender was dropped
    worker_queues,              \* per-worker inbox
    assigned,                   \* the worker each request was dispatched to (0: none)
    full_seen,                  \* the dispatcher has found a chosen worker's queue full
    blocked_on,                 \* the worker the dispatcher is blocked on (0: none)
    poller,                     \* the Kubernetes context poller: lifecycle and snapshot
    evaluation,                 \* the evaluation a worker is running
    next_worker,                \* round-robin cursor
    reply,                      \* request -> state of its oneshot reply handle
    responses,                  \* request -> number of responses sent on it
    \* ---- process-wide effects
    http_bound,                 \* server::run_server is running
    store,                      \* urls whose module file is in local storage
    events,                     \* error! / shutdown_tracer_provider / exit
    exited,                     \* the process has ended
    exit_status,                \* its status, once it has ended
    \* ---- history of the sequencer, for the ordering properties
    history

cfg_vars == <<policies, verify_enabled, verification_keys, cert_file, pool_size,
              cli, metrics_enabled, verification_settings, config_error>>
cfg_rest == <<verify_enabled, verification_keys, cert_file, pool_size,
              cli, metrics_enabled, verification_settings, config_error>>
seq_vars == <<policy_idx, key_idx, verified_manifest_digest, fetched_policy>>
poller_chan_vars == <<kube_poller_bootstrap_req, kube_poller_bootstrap_res>>
pool_chan_vars == <<worker_pool_bootstrap_req, worker_pool_bootstrap_res, bootstrap_data>>
dispatch_vars == <<assigned, full_seen, blocked_on>>
eval_vars == <<api_rx, api_tx_dropped, worker_queues, next_worker, reply, responses,
               dispatch_vars>>
vars == <<policies, verify_enabled, verification_keys, cert_file, pool_size,
          cli, metrics_enabled, verification_settings, config_error,
          pc, policy_idx, key_idx, verified_manifest_digest, fetched_policy,
          kube_poller_bootstrap_req, kube_poller_bootstrap_res,
          worker_pool_bootstrap_req, worker_pool_bootstrap_res, bootstrap_data,
          api_rx, api_tx_dropped, worker_queues, next_worker, reply, responses,
          assigned, full_seen, blocked_on, poller, evaluation,
          http_bound, store, events, exited, exit_status, history>>

exit_vars == <<exited, exit_status>>
Running == ~exited

\* ------------------------------------------------------------- evaluation
\* The settings of a policy that decide what becomes of its verdict
PolicyModes == {"protect", "monitor"}
AllowedToMutate == {"None", "Some(true)", "Some(false)"}
PolicySpecs ==
    {[policy_mode |-> m, allowed_to_mutate |-> a] :
        m \in PolicyModes, a \in AllowedToMutate}

\* The JSON patches a policy can return: sequences of at most MaxPatchOps
\* operations, the empty one for no mutation
PatchOps == {"add", "remove"}
Patches == UNION {[1..n -> PatchOps] : n \in 0..MaxPatchOps}

\* What the sandbox returns for one admission review: a verdict with a patch,
\* or an error of the run
RawOutcomes ==
    {[allowed |-> a, patch |-> p, error |-> ""] : a \in BOOLEAN, p \in Patches}
      \cup {[allowed |-> FALSE, patch |-> <<>>, error |-> e] :
               e \in {"runtime_trap", "deadline_exceeded"}}

\* An EvaluationResponse: the verdict, the patch, the failure code and the
\* audit annotation of the original decision
Response(allowed, patch, code, audit) ==
    [allowed |-> allowed, patch |-> patch, code |-> code, audit |-> audit]
NoResponse == Response(FALSE, <<>>, "", "")

\* No evaluation is running
IdleEvaluation ==
    [stage |-> "idle",
     policy |-> [policy_mode |-> "protect", allowed_to_mutate |-> "None"],
     raw |-> [allowed |-> FALSE, patch |-> <<>>, error |-> ""],
     response |-> NoResponse]

\* Mutant of MutationGate: a policy that does not say whether it may mutate is
\* taken to be allowed to
MutationGate_NoneAllows(policy, raw) ==
    IF raw.patch # <<>> /\ policy.allowed_to_mutate = "Some(false)"
    THEN Response(FALSE, <<>>, "policy_misbehavior", "")
    ELSE Response(raw.allowed, raw.patch, raw.error, "")

\* Mutation is only permitted when allowed_to_mutate = true; otherwise a
\* returned patch is stripped and the request is failed with policy_misbehavior
MutationGate(policy, raw) ==
    IF raw.patch # <<>> /\ policy.allowed_to_mutate # "Some(true)"
    THEN Response(FALSE, <<>>, "policy_misbehavior", "")
    ELSE Response(raw.allowed, raw.patch, raw.error, "")

\* In monitor mode a deny is rewritten to allow with an audit annotation
\* recording the original decision, and the patch is discarded
MonitorRewrite(policy, res) ==
    IF policy.policy_mode = "monitor"
    THEN Response(TRUE, <<>>, "", IF res.allowed THEN "allow" ELSE "deny")
    ELSE res

EvaluationResponse(policy, raw) ==
    MonitorRewrite(policy, MutationGate(policy, raw))

\* a worker invokes the sandbox entry point of a policy with one admission
\* review
Evaluate ==
    /\ Running
    /\ pc["wasm_thread"] = "dispatching"
    /\ evaluation.stage \in {"idle", "responded"}
    /\ \E policy \in PolicySpecs, raw \in RawOutcomes :
         evaluation' = [stage |-> "evaluated", policy |-> policy, raw |-> raw,
                        response |-> NoResponse]
    /\ UNCHANGED <<cfg_vars, pc, seq_vars, poller_chan_vars, pool_chan_vars, eval_vars,
                   http_bound, store, events, exit_vars, history, poller>>

\* the worker builds the response of the evaluation
EvaluationRespond ==
    /\ Running
    /\ pc["wasm_thread"] = "dispatching"
    /\ evaluation.stage = "evaluated"
    /\ evaluation' = [evaluation EXCEPT
                        !.stage = "responded",
                        !.response = EvaluationResponse(evaluation.policy, evaluation.raw)]
    /\ UNCHANGED <<cfg_vars, pc, seq_vars, poller_chan_vars, pool_chan_vars, eval_vars,
                   http_bound, store, events, exit_vars, history, poller>>

\* The resource kinds the policies declare as context inputs
ResourceSets == {{}, {"Namespace"}}

\* The poller before its thread runs: no poll made, no snapshot published
NewPoller(resources) ==
    [state |-> "Starting", resources |-> resources, polls |-> 0, failures |-> 0,
     snapshot |-> 0]

\* std::env::var_os(name): <<>> when the variable is not set, <<v>> when it
\* is set to v (the empty string included)
EnvValues == {<<>>, <<"">>, <<"1">>}

\* A command line and environment: the two boolean flags, the two environment
\* variables, the number of keys in the verification settings file, and the
\* ignore_kubernetes_connection_failure setting of the configuration
CommandLine(m_flag, m_env, v_flag, v_env, keys, ignore) ==
    [enable_metrics |-> m_flag, KUBEWARDEN_ENABLE_METRICS |-> m_env,
     enable_verification |-> v_flag, KUBEWARDEN_ENABLE_VERIFICATION |-> v_env,
     verification_keys |-> keys, ignore_kubernetes_connection_failure |-> ignore]

AllCommandLines ==
    {CommandLine(mf, me, vf, ve, k, ig) :
        mf \in BOOLEAN, me \in EnvValues, vf \in BOOLEAN, ve \in EnvValues,
        k \in 0..MaxKeys, ig \in BOOLEAN}

\* The command lines the sequencing is explored with: nothing enabled, and
\* verification by flag with metrics by an empty environment variable
BootCommandLines ==
    {CommandLine(FALSE, <<>>, FALSE, <<>>, 0, FALSE)}
      \cup {CommandLine(FALSE, <<"">>, TRUE, <<>>, k, TRUE) : k \in 0..MaxKeys}

\* State at the start of main, before the configuration is read: the values
\* given on the command line, nothing derived from them yet, no thread spawned
Boot ==
    /\ \E n \in 0..MaxPolicies : policies = PolicySet(n)
    /\ verify_enabled = FALSE
    /\ metrics_enabled = FALSE
    /\ verification_settings = "None"
    /\ verification_keys = 0
    /\ config_error = None
    /\ cert_file \in {"", "cert.pem"}
    /\ pool_size \in 1..MaxWorkers
    /\ pc = [t \in Threads |-> IF t = "main" THEN "read_config" ELSE "unspawned"]
    /\ policy_idx = 0
    /\ key_idx = 0
    /\ verified_manifest_digest = None
    /\ fetched_policy = NoFetchedPolicy
    /\ kube_poller_bootstrap_req = "empty"
    /\ kube_poller_bootstrap_res = "none"
    /\ worker_pool_bootstrap_req = "empty"
    /\ worker_pool_bootstrap_res = "none"
    /\ bootstrap_data = NoBootstrapData
    /\ api_rx = <<>>
    /\ api_tx_dropped = FALSE
    /\ worker_queues = <<>>
    /\ next_worker = 1
    /\ reply = [r \in Requests |-> "unused"]
    /\ responses = [r \in Requests |-> 0]
    /\ assigned = [r \in Requests |-> 0]
    /\ full_seen = FALSE
    /\ blocked_on = 0
    /\ \E resources \in ResourceSets : poller = NewPoller(resources)
    /\ evaluation = IdleEvaluation
    /\ http_bound = FALSE
    /\ store = {}
    /\ events = <<>>
    /\ exited = FALSE
    /\ exit_status = 0
    /\ history = <<>>

Init == cli \in BootCommandLines /\ Boot /\ poller.resources # {}

\* ------------------------------------------------------------ fatal_error
FatalStates == {"fatal_error", "fatal_logged", "fatal_flushed"}

Goto(t, label) == pc' = [pc EXCEPT ![t] = label]

\* An entry of the sequencer's history: the step, the policy and the key it
\* was about (0 when it is about none), and whether it succeeded
Step(name, policy, key) == [step |-> name, policy |-> policy, key |-> key, ok |-> TRUE]
Failed(step) == [step EXCEPT !.ok = FALSE]

\* The sequencer leaves step `step` through fatal_error(msg)
Fail(step) ==
    /\ Goto("main", "fatal_error")
    /\ history' = Append(history, Failed(step))

\* The sequencer completes step `step` and moves to `label`
Done(step, label) ==
    /\ Goto("main", label)
    /\ history' = Append(history, step)

\* fn fatal_error(msg): error!("{}", msg);
FatalLog(t) ==
    /\ Running
    /\ pc[t] = "fatal_error"
    /\ events' = Append(events, <<t, "error">>)
    /\ Goto(t, "fatal_logged")
    /\ UNCHANGED <<cfg_vars, seq_vars, poller_chan_vars, pool_chan_vars, eval_vars,
                   http_bound, store, exit_vars, history, poller, evaluation>>

\* Mutant of FatalFlush: fatal_error exits without flushing the tracer
FatalFlush_NoFlush(t) ==
    /\ Running
    /\ pc[t] = "fatal_logged"
    /\ Goto(t, "fatal_flushed")
    /\ UNCHANGED <<cfg_vars, seq_vars, poller_chan_vars, pool_chan_vars, eval_vars,
                   http_bound, store, events, exit_vars, history, poller, evaluation>>

\* shutdown_tracer_provider();
FatalFlush(t) ==
    /\ Running
    /\ pc[t] = "fatal_logged"
    /\ events' = Append(events, <<t, "shutdown_tracer_provider">>)
    /\ Goto(t, "fatal_flushed")
    /\ UNCHANGED <<cfg_vars, seq_vars, poller_chan_vars, pool_chan_vars, eval_vars,
                   http_bound, store, exit_vars, history, poller, evaluation>>

\* Mutant of FatalExit: the exit ends only the thread that calls it, as a
\* panic would, unless it is the main thread
FatalExit_EndsThreadOnly(t) ==
    /\ Running
    /\ pc[t] = "fatal_flushed"
    /\ events' = Append(events, <<t, "exit">>)
    /\ IF t = "main"
       THEN /\ exited' = TRUE
            /\ exit_status' = 1
            /\ http_bound' = FALSE
            /\ UNCHANGED pc
       ELSE /\ Goto(t, "panicked")
            /\ UNCHANGED <<exit_vars, http_bound>>
    /\ UNCHANGED <<cfg_vars, seq_vars, poller_chan_vars, pool_chan_vars, eval_vars,
                   store, history, poller, evaluation>>

\* process::exit(1): ends every thread of the process
FatalExit(t) ==
    /\ Running
    /\ pc[t] = "fatal_flushed"
    /\ events' = Append(events, <<t, "exit">>)
    /\ exited' = TRUE
    /\ exit_status' = 1
    /\ http_bound' = FALSE
    /\ UNCHANGED <<cfg_vars, pc, seq_vars, poller_chan_vars, pool_chan_vars, eval_vars,
                   store, history, poller, evaluation>>

\* ------------------------------------------------- reading the configuration
\* matches.is_present("enable-metrics")
\*     || std::env::var_os("KUBEWARDEN_ENABLE_METRICS").is_some()
MetricsEnabled(c) ==
    c.enable_metrics \/ Len(c.KUBEWARDEN_ENABLE_METRICS) = 1

\* Mutant of VerifyEnabled: a variable set to the empty string counts as not set
VerifyEnabled_NonEmptyValue(c) ==
    c.enable_verification
      \/ (Len(c.KUBEWARDEN_ENABLE_VERIFICATION) = 1
            /\ c.KUBEWARDEN_ENABLE_VERIFICATION[1] # "")

\* matches.is_present("enable-verification")
\*     || std::env::var_os("KUBEWARDEN_ENABLE_VERIFICATION").is_some()
VerifyEnabled(c) ==
    c.enable_verification \/ Len(c.KUBEWARDEN_ENABLE_VERIFICATION) = 1

\* The cli steps of main that can reject the configuration, in order
ConfigSteps ==
    <<"api_bind_address", "tls_files", "policies", "remote_server_options",
      "workers", "verification_settings">>

\* Mutant of ConfigErrorStatus: the expect() on the number of workers is read as
\* one more `?`
ConfigErrorStatus_AlwaysOne(err) == 1

\* How main ends on a rejected configuration: `?` returns the error from main
\* (status 1), the expect() on the number of workers panics (status 101)
ConfigErrorStatus(err) == IF err = "workers" THEN 101 ELSE 1

\* main.rs 32-126: the configuration is read; an error ends main at once, without
\* fatal_error; otherwise the channels are created and both threads are spawned.
\* The two flags are computed after the first five steps; the verification
\* settings are read only when verification is enabled.
ReadConfig ==
    /\ Running
    /\ pc["main"] = "read_config"
    /\ \E i \in 0..Len(ConfigSteps) :
         /\ (i = Len(ConfigSteps) => VerifyEnabled(cli))
         /\ metrics_enabled' = IF i = 0 \/ i = Len(ConfigSteps)
                                THEN MetricsEnabled(cli) ELSE metrics_enabled
         /\ verify_enabled' = IF i = 0 \/ i = Len(ConfigSteps)
                               THEN VerifyEnabled(cli) ELSE verify_enabled
         /\ IF i = 0
            THEN /\ verification_settings' = IF VerifyEnabled(cli) THEN "Some" ELSE "None"
                 /\ verification_keys' = IF VerifyEnabled(cli)
                                         THEN cli.verification_keys ELSE 0
                 /\ pc' = [t \in Threads |->
                             IF t = "main" THEN "runtime_new"
                             ELSE IF t = "kube_poller_thread" THEN "new"
                             ELSE "wait_boot"]
                 /\ UNCHANGED <<config_error, events, exit_vars, poller, evaluation>>
            ELSE /\ config_error' = ConfigSteps[i]
                 /\ exited' = TRUE
                 /\ exit_status' = ConfigErrorStatus(ConfigSteps[i])
                 /\ events' = Append(events, <<"main", "exit">>)
                 /\ UNCHANGED <<verification_settings, verification_keys, pc, poller, evaluation>>
    /\ UNCHANGED <<policies, cert_file, pool_size, cli, seq_vars, poller_chan_vars,
                   pool_chan_vars, eval_vars, http_bound, store, history, poller, evaluation>>

\* ------------------------------------------------- sequencer: phase 3 start
\* let rt = match Runtime::new() { Ok(r) => r, Err(error) => fatal_error(..) }
RuntimeNew ==
    /\ Running
    /\ pc["main"] = "runtime_new"
    /\ \E ok \in BOOLEAN :
         IF ok THEN Done(Step("runtime_new", 0, 0), "setup_tracing")
         ELSE Fail(Step("runtime_new", 0, 0))
    /\ UNCHANGED <<cfg_vars, seq_vars, poller_chan_vars, pool_chan_vars, eval_vars,
                   http_bound, store, events, exit_vars, poller, evaluation>>

\* if let Err(err) = cli::setup_tracing(&matches) { fatal_error(..) }
SetupTracing ==
    /\ Running
    /\ pc["main"] = "setup_tracing"
    /\ \E ok \in BOOLEAN :
         IF ok THEN Done(Step("setup_tracing", 0, 0), "download")
         ELSE Fail(Step("setup_tracing", 0, 0))
    /\ UNCHANGED <<cfg_vars, seq_vars, poller_chan_vars, pool_chan_vars, eval_vars,
                   http_bound, store, events, exit_vars, poller, evaluation>>

\* ------------------------------------------------ sequencer: download loop
\* Mutant of RecordPath: the fetched path is not stored in the policy
RecordPath_NotStored(i, path) ==
    policies' = policies

\* Mutant of RecordPath: the url of the policy is replaced as well, by the url
\* the fetch resolved
RecordPath_ReplacesUrl(i, path) ==
    policies' = [policies EXCEPT ![i].wasm_module_path = path,
                                 ![i].url = Urls[Len(Urls)]]

\* policy.wasm_module_path = fetched_policy.local_path;
RecordPath(i, path) ==
    policies' = [policies EXCEPT ![i].wasm_module_path = path]

\* for (name, policy) in policies.iter_mut() { ... }
\* One iteration starts: a fresh verifier, verified_manifest_digest = None.
\* After the last policy: info!(status = "done", "policies download").
NextPolicy ==
    /\ Running
    /\ pc["main"] = "download"
    /\ key_idx' = 0
    /\ verified_manifest_digest' = None
    /\ fetched_policy' = NoFetchedPolicy
    /\ IF policy_idx < Len(policies)
       THEN /\ policy_idx' = policy_idx + 1
            /\ Goto("main", IF verify_enabled THEN "verify" ELSE "fetch")
            /\ UNCHANGED history
       ELSE /\ UNCHANGED policy_idx
            /\ Done(Step("download", 0, 0), "send_poller_boot")
    /\ UNCHANGED <<cfg_vars, poller_chan_vars, pool_chan_vars, eval_vars,
                   http_bound, store, events, exit_vars, poller, evaluation>>

\* verified_manifest_digest = Some(verifier.verify(&policy.url, .., key_value)
\*     .await.map_err(|e| fatal_error(e.to_string())).unwrap());
\* The registry answers with the manifest digest, or the verification fails.
VerifyKey ==
    /\ Running
    /\ pc["main"] = "verify"
    /\ key_idx < verification_keys
    /\ \E res \in Digests \cup {"Err"} :
         IF res = "Err"
         THEN /\ Fail(Step("verify", policy_idx, key_idx + 1))
              /\ UNCHANGED <<key_idx, verified_manifest_digest, poller, evaluation>>
         ELSE /\ key_idx' = key_idx + 1
              /\ verified_manifest_digest' = res
              /\ Done(Step("verify", policy_idx, key_idx + 1), "verify")
    /\ UNCHANGED <<cfg_vars, policy_idx, fetched_policy, poller_chan_vars,
                   pool_chan_vars, eval_vars, http_bound, store, events, exit_vars, poller, evaluation>>

\* Mutant of VerifyDone: the loop over the keys ends after the first key
VerifyDone_FirstKeyOnly ==
    /\ Running
    /\ pc["main"] = "verify"
    /\ (key_idx >= 1 \/ verification_keys = 0)
    /\ Goto("main", "fetch")
    /\ UNCHANGED <<cfg_vars, seq_vars, poller_chan_vars, pool_chan_vars, eval_vars,
                   http_bound, store, events, exit_vars, history, poller, evaluation>>

\* The loop over verification_keys.values() is exhausted:
\* info!(status = "verified-signatures"), then the fetch.
VerifyDone ==
    /\ Running
    /\ pc["main"] = "verify"
    /\ key_idx = verification_keys
    /\ Goto("main", "fetch")
    /\ UNCHANGED <<cfg_vars, seq_vars, poller_chan_vars, pool_chan_vars, eval_vars,
                   http_bound, store, events, exit_vars, history, poller, evaluation>>

\* Mutant of IsNone: the sequencer does not notice that no digest was verified
IsNone_Never(digest) == FALSE

\* verified_manifest_digest.is_none()
IsNone(digest) == digest = None

\* match policy_fetcher::fetch_policy(&policy.url, Store(download_dir), ..).await
\*   Ok(fetched_policy): the module file is in local storage; with verification
\*     enabled the local checksum is verified next, unless no digest was verified
\*     ("Trying to verify but no keys were passed"); without it the path is recorded.
\*   Err(e): fatal_error("error while fetching policy ..").
FetchPolicy ==
    /\ Running
    /\ pc["main"] = "fetch"
    /\ \E res \in Digests \cup {"Err"} :
         IF res = "Err"
         THEN /\ Fail(Step("fetch", policy_idx, 0))
              /\ UNCHANGED <<store, fetched_policy, policies, poller, evaluation>>
         ELSE /\ store' = store \cup {policies[policy_idx].url}
              /\ IF verify_enabled
                 THEN IF IsNone(verified_manifest_digest)
                      THEN /\ history' = Append(Append(history, Step("fetch", policy_idx, 0)),
                                                Failed(Step("no_keys", policy_idx, 0)))
                           /\ Goto("main", "fatal_error")
                           /\ UNCHANGED <<fetched_policy, policies, poller, evaluation>>
                      ELSE /\ fetched_policy' =
                                 [uri |-> policies[policy_idx].url,
                                  local_path |-> LocalPath(policies[policy_idx].url),
                                  digest |-> res]
                           /\ Done(Step("fetch", policy_idx, 0), "verify_local_file_checksum")
                           /\ UNCHANGED policies
                 ELSE /\ RecordPath(policy_idx, LocalPath(policies[policy_idx].url))
                      /\ Done(Step("fetch", policy_idx, 0), "download")
                      /\ UNCHANGED fetched_policy
    /\ UNCHANGED <<cfg_rest,
                   policy_idx, key_idx, verified_manifest_digest, poller_chan_vars,
                   pool_chan_vars, eval_vars, http_bound, events, exit_vars, poller, evaluation>>

\* Mutant of LocalFileChecksum: the digests are not compared
LocalFileChecksum_NoCompare(file_digest, manifest_digest, io_ok) ==
    IF io_ok THEN "Ok" ELSE "Err"

\* verifier.verify_local_file_checksum(&fetched_policy.uri, .., digest): Ok when the
\* digest of the local file is the verified manifest digest and the file is readable
LocalFileChecksum(file_digest, manifest_digest, io_ok) ==
    IF io_ok /\ file_digest = manifest_digest THEN "Ok" ELSE "Err"

\* verifier.verify_local_file_checksum(..).await
\*     .map_err(|e| fatal_error(e.to_string())).unwrap();
\* then policy.wasm_module_path = fetched_policy.local_path;
VerifyLocalFileChecksum ==
    /\ Running
    /\ pc["main"] = "verify_local_file_checksum"
    /\ \E io_ok \in BOOLEAN :
         IF LocalFileChecksum(fetched_policy.digest, verified_manifest_digest, io_ok) = "Ok"
         THEN /\ RecordPath(policy_idx, fetched_policy.local_path)
              /\ Done(Step("verify_local_file_checksum", policy_idx, 0), "download")
         ELSE /\ Fail(Step("verify_local_file_checksum", policy_idx, 0))
              /\ UNCHANGED policies
    /\ UNCHANGED <<cfg_rest,
                   seq_vars, poller_chan_vars, pool_chan_vars, eval_vars,
                   http_bound, store, events, exit_vars, poller, evaluation>>

\* --------------------------------------------- sequencer: the boot requests
\* let (kube_poller_bootstrap_res_tx, mut kube_poller_bootstrap_res_rx) = oneshot::channel();
\* if kube_poller_bootstrap_req_tx.send(KubePollerBootRequest { resp_chan }).is_err()
\*     { fatal_error("Cannot send bootstrap data to kubernetes poller") }
\* A oneshot send fails exactly when the receiver was dropped.
SendKubePollerBootRequest ==
    /\ Running
    /\ pc["main"] = "send_poller_boot"
    /\ IF kube_poller_bootstrap_req = "rx_dropped"
       THEN /\ Fail(Step("send_poller_boot", 0, 0))
            /\ kube_poller_bootstrap_res' = "closed"
            /\ UNCHANGED kube_poller_bootstrap_req
       ELSE /\ kube_poller_bootstrap_req' = "sent"
            /\ kube_poller_bootstrap_res' = "empty"
            /\ Done(Step("send_poller_boot", 0, 0), "wait_poller_boot")
    /\ UNCHANGED <<cfg_vars, seq_vars, pool_chan_vars, eval_vars,
                   http_bound, store, events, exit_vars, poller, evaluation>>

\* Mutant of TryRecv: a closed reply channel keeps the sequencer waiting, like
\* an empty one
TryRecv_ClosedWaits(res) ==
    CASE res = "ok" -> "break"
      [] res = "err" -> "fatal"
      [] OTHER -> "wait"

\* Mutant of TryRecv: a closed reply channel ends the wait like a success
TryRecv_ClosedBreaks(res) ==
    CASE res = "ok" -> "break"
      [] res = "err" -> "fatal"
      [] res = "closed" -> "break"
      [] OTHER -> "wait"

\* What one try_recv() of a boot reply makes of the channel's state:
\* Ok(Ok(_)) => break, Ok(Err(e)) => fatal_error, Empty => keep waiting,
\* Closed => fatal_error("Cannot receive .. bootstrap result")
TryRecv(res) ==
    CASE res = "ok" -> "break"
      [] res = "err" -> "fatal"
      [] res = "closed" -> "fatal"
      [] OTHER -> "wait"

\* Mutant of RecvKubePollerBootstrapRes: the sequencer does not wait for the
\* poller's reply and moves on while it is still pending
RecvKubePollerBootstrapRes_NoWait ==
    /\ Running
    /\ pc["main"] = "wait_poller_boot"
    /\ Done(Step("wait_poller_boot", 0, 0), "send_pool_boot")
    /\ UNCHANGED <<cfg_vars, seq_vars, poller_chan_vars, pool_chan_vars, eval_vars,
                   http_bound, store, events, exit_vars, poller, evaluation>>

\* loop { match kube_poller_bootstrap_res_rx.try_recv() { .. } }
\* The Empty arm changes nothing: the sequencer stays in the loop.
RecvKubePollerBootstrapRes ==
    /\ Running
    /\ pc["main"] = "wait_poller_boot"
    /\ TryRecv(kube_poller_bootstrap_res) # "wait"
    /\ IF TryRecv(kube_poller_bootstrap_res) = "break"
       THEN Done(Step("wait_poller_boot", 0, 0), "send_pool_boot")
       ELSE Fail(Step("wait_poller_boot", 0, 0))
    /\ UNCHANGED <<cfg_vars, seq_vars, poller_chan_vars, pool_chan_vars, eval_vars,
                   http_bound, store, events, exit_vars, poller, evaluation>>

\* let bootstrap_data = WorkerPoolBootRequest { policies, pool_size, resp_chan };
\* if worker_pool_bootstrap_req_tx.send(bootstrap_data).is_err() { fatal_error(..) }
SendWorkerPoolBootRequest ==
    /\ Running
    /\ pc["main"] = "send_pool_boot"
    /\ IF worker_pool_bootstrap_req = "rx_dropped"
       THEN /\ Fail(Step("send_pool_boot", 0, 0))
            /\ worker_pool_bootstrap_res' = "closed"
            /\ UNCHANGED <<worker_pool_bootstrap_req, bootstrap_data, poller, evaluation>>
       ELSE /\ worker_pool_bootstrap_req' = "sent"
            /\ worker_pool_bootstrap_res' = "empty"
            /\ bootstrap_data' = [policies |-> policies, pool_size |-> pool_size]
            /\ Done(Step("send_pool_boot", 0, 0), "wait_pool_boot")
    /\ UNCHANGED <<cfg_vars, seq_vars, poller_chan_vars, eval_vars,
                   http_bound, store, events, exit_vars, poller, evaluation>>

\* Mutant of RecvWorkerPoolBootstrapRes: the sequencer does not wait for the
\* worker pool's reply and goes on to the HTTP server
RecvWorkerPoolBootstrapRes_NoWait ==
    /\ Running
    /\ pc["main"] = "wait_pool_boot"
    /\ Done(Step("wait_pool_boot", 0, 0), "tls_acceptor")
    /\ UNCHANGED <<cfg_vars, seq_vars, poller_chan_vars, pool_chan_vars, eval_vars,
                   http_bound, store, events, exit_vars, poller, evaluation>>

\* loop { match worker_pool_bootstrap_res_rx.try_recv() { .. } }
RecvWorkerPoolBootstrapRes ==
    /\ Running
    /\ pc["main"] = "wait_pool_boot"
    /\ TryRecv(worker_pool_bootstrap_res) # "wait"
    /\ IF TryRecv(worker_pool_bootstrap_res) = "break"
       THEN Done(Step("wait_pool_boot", 0, 0), "tls_acceptor")
       ELSE Fail(Step("wait_pool_boot", 0, 0))
    /\ UNCHANGED <<cfg_vars, seq_vars, poller_chan_vars, pool_chan_vars, eval_vars,
                   http_bound, store, events, exit_vars, poller, evaluation>>

\* ------------------------------------------------- sequencer: HTTP and joins
\* let tls_acceptor = if cert_file.is_empty() { None } else {
\*     match server::new_tls_acceptor(..) { Ok(t) => Some(t), Err(e) => fatal_error(..) } };
NewTlsAcceptor ==
    /\ Running
    /\ pc["main"] = "tls_acceptor"
    /\ \E ok \in BOOLEAN :
         IF cert_file = "" \/ ok
         THEN Done(Step("tls_acceptor", 0, 0), "run_server")
         ELSE Fail(Step("tls_acceptor", 0, 0))
    /\ UNCHANGED <<cfg_vars, seq_vars, poller_chan_vars, pool_chan_vars, eval_vars,
                   http_bound, store, events, exit_vars, poller, evaluation>>

\* server::run_server(&addr, tls_acceptor, api_tx).await: the listener is bound
RunServer ==
    /\ Running
    /\ pc["main"] = "run_server"
    /\ http_bound' = TRUE
    /\ Done(Step("run_server", 0, 0), "serving")
    /\ UNCHANGED <<cfg_vars, seq_vars, poller_chan_vars, pool_chan_vars, eval_vars,
                   store, events, exit_vars, poller, evaluation>>

\* Mutant of ServerEnd: the sequencer goes on to the poller's join
ServerEnd_JoinPollerFirst ==
    /\ Running
    /\ pc["main"] = "serving"
    /\ http_bound' = FALSE
    /\ api_tx_dropped' = TRUE
    /\ Done(Step("server_end", 0, 0), "join_poller")
    /\ UNCHANGED <<cfg_vars, seq_vars, poller_chan_vars, pool_chan_vars,
                   api_rx, worker_queues, next_worker, reply, responses,
                   store, events, exit_vars,
                   dispatch_vars, poller, evaluation>>

\* run_server returns: the server, and with it api_tx, is dropped; block_on ends
ServerEnd ==
    /\ Running
    /\ pc["main"] = "serving"
    /\ http_bound' = FALSE
    /\ api_tx_dropped' = TRUE
    /\ Done(Step("server_end", 0, 0), "join_wasm")
    /\ UNCHANGED <<cfg_vars, seq_vars, poller_chan_vars, pool_chan_vars,
                   api_rx, worker_queues, next_worker, reply, responses,
                   store, events, exit_vars,
                   dispatch_vars, poller, evaluation>>

Terminated(t) == pc[t] \in {"finished", "panicked"}

\* if let Err(e) = wasm_thread.join() { fatal_error(..) };
JoinWasmThread ==
    /\ Running
    /\ pc["main"] = "join_wasm"
    /\ Terminated("wasm_thread")
    /\ IF pc["wasm_thread"] = "finished"
       THEN Done(Step("join_wasm", 0, 0), "join_poller")
       ELSE Fail(Step("join_wasm", 0, 0))
    /\ UNCHANGED <<cfg_vars, seq_vars, poller_chan_vars, pool_chan_vars, eval_vars,
                   http_bound, store, events, exit_vars, poller, evaluation>>

\* Mutant of JoinKubePollerThread: the result of the join is ignored
JoinKubePollerThread_IgnoreErr ==
    /\ Running
    /\ pc["main"] = "join_poller"
    /\ Terminated("kube_poller_thread")
    /\ Done(Step("join_poller", 0, 0), "return_ok")
    /\ UNCHANGED <<cfg_vars, seq_vars, poller_chan_vars, pool_chan_vars, eval_vars,
                   http_bound, store, events, exit_vars, poller, evaluation>>

\* if let Err(e) = kube_poller_thread.join() { fatal_error(..) };
JoinKubePollerThread ==
    /\ Running
    /\ pc["main"] = "join_poller"
    /\ Terminated("kube_poller_thread")
    /\ IF pc["kube_poller_thread"] = "finished"
       THEN Done(Step("join_poller", 0, 0), "return_ok")
       ELSE Fail(Step("join_poller", 0, 0))
    /\ UNCHANGED <<cfg_vars, seq_vars, poller_chan_vars, pool_chan_vars, eval_vars,
                   http_bound, store, events, exit_vars, poller, evaluation>>

\* Ok(()): main returns and the process ends with status 0
ReturnOk ==
    /\ Running
    /\ pc["main"] = "return_ok"
    /\ exited' = TRUE
    /\ exit_status' = 0
    /\ events' = Append(events, <<"main", "exit">>)
    /\ UNCHANGED <<cfg_vars, pc, seq_vars, poller_chan_vars, pool_chan_vars, eval_vars,
                   http_bound, store, history, poller, evaluation>>

\* What a thread that ends without replying leaves of its boot channels: a
\* receiver dropped before the send makes the send fail, a request dropped
\* unanswered closes its reply handle
DropBootReq(req) == IF req = "empty" THEN "rx_dropped" ELSE req
DropBootRes(req, res, holds_reply) ==
    IF req = "sent" \/ holds_reply THEN "closed" ELSE res

\* ------------------------------------------------ the Kubernetes poller thread
\* let poller = match kube_poller::Poller::new(rx) { Ok(p) => p,
\*     Err(e) => { fatal_error("Cannot init dedicated tokio runtime ..") } };
\* Poller::new owns the receiver: when it fails the receiver is dropped with it.
PollerNew ==
    /\ Running
    /\ pc["kube_poller_thread"] = "new"
    /\ \E ok \in BOOLEAN :
         /\ Goto("kube_poller_thread", IF ok THEN "wait_boot" ELSE "fatal_error")
         /\ poller' = IF ok THEN poller ELSE [poller EXCEPT !.state = "Stopped"]
         /\ kube_poller_bootstrap_req' =
                IF ok THEN kube_poller_bootstrap_req
                ELSE DropBootReq(kube_poller_bootstrap_req)
         /\ kube_poller_bootstrap_res' =
                IF ok THEN kube_poller_bootstrap_res
                ELSE DropBootRes(kube_poller_bootstrap_req, kube_poller_bootstrap_res, FALSE)
    /\ UNCHANGED <<cfg_vars, seq_vars, pool_chan_vars, eval_vars,
                   http_bound, store, events, exit_vars, history, evaluation>>

\* poller.run(): the boot request arrives
PollerRecvBootRequest ==
    /\ Running
    /\ pc["kube_poller_thread"] = "wait_boot"
    /\ kube_poller_bootstrap_req = "sent"
    /\ kube_poller_bootstrap_req' = "received"
    /\ Goto("kube_poller_thread", "bootstrapping")
    /\ UNCHANGED <<cfg_vars, seq_vars, kube_poller_bootstrap_res, pool_chan_vars,
                   eval_vars, http_bound, store, events, exit_vars, history, poller, evaluation>>

\* Mutant of Polled: a successful poll does not reset the count of failures
Polled_NoReset(p, ok) ==
    IF ok
    THEN [p EXCEPT !.polls = @ + 1, !.snapshot = @ + 1, !.state = "Ready"]
    ELSE [p EXCEPT !.polls = @ + 1, !.failures = @ + 1,
                   !.state = IF p.state = "Starting" THEN "Starting"
                             ELSE IF p.failures + 1 >= MaxConsecutiveFailures
                                  THEN "Degraded" ELSE p.state]

\* One poll: every resource kind is listed. On success a new snapshot replaces
\* the previous one and the poller is Ready; on a list error the previous
\* snapshot is retained, and max_consecutive_failures failures in a row make
\* the poller Degraded
Polled(p, ok) ==
    IF ok
    THEN [p EXCEPT !.polls = @ + 1, !.snapshot = @ + 1, !.failures = 0,
                   !.state = "Ready"]
    ELSE [p EXCEPT !.polls = @ + 1, !.failures = @ + 1,
                   !.state = IF p.state = "Starting" THEN "Starting"
                             ELSE IF p.failures + 1 >= MaxConsecutiveFailures
                                  THEN "Degraded" ELSE p.state]

\* The outcomes of the first poll: with no resource to list it cannot fail
FirstPoll(resources) == IF resources = {} THEN {"ok"} ELSE {"ok", "err"}

\* every poll_interval: one more poll
Poll ==
    /\ Running
    /\ pc["kube_poller_thread"] = "polling"
    /\ poller.polls < MaxPolls
    /\ \E res \in FirstPoll(poller.resources) : poller' = Polled(poller, res = "ok")
    /\ UNCHANGED <<cfg_vars, pc, seq_vars, poller_chan_vars, pool_chan_vars, eval_vars,
                   http_bound, store, events, exit_vars, history, evaluation>>

\* poller.run(): the first poll is over, the reply is sent on resp_chan
PollerBootstrapReply ==
    /\ Running
    /\ pc["kube_poller_thread"] = "bootstrapping"
    /\ \E res \in FirstPoll(poller.resources) :
         /\ kube_poller_bootstrap_res' = res
         /\ poller' = IF res = "ok" THEN Polled(poller, TRUE)
                       ELSE [Polled(poller, FALSE) EXCEPT !.state = "Stopped"]
         /\ Goto("kube_poller_thread", IF res = "ok" THEN "polling" ELSE "finished")
    /\ UNCHANGED <<cfg_vars, seq_vars, kube_poller_bootstrap_req, pool_chan_vars,
                   eval_vars, http_bound, store, events, exit_vars, history, evaluation>>

\* the poller thread panics
PollerPanic ==
    /\ Running
    /\ pc["kube_poller_thread"] \in {"wait_boot", "bootstrapping", "polling"}
    /\ kube_poller_bootstrap_req' = DropBootReq(kube_poller_bootstrap_req)
    /\ kube_poller_bootstrap_res' =
           DropBootRes(kube_poller_bootstrap_req, kube_poller_bootstrap_res,
                       pc["kube_poller_thread"] = "bootstrapping")
    /\ poller' = [poller EXCEPT !.state = "Stopped"]
    /\ Goto("kube_poller_thread", "panicked")
    /\ UNCHANGED <<cfg_vars, seq_vars, pool_chan_vars, eval_vars,
                   http_bound, store, events, exit_vars, history, evaluation>>

\* the poller stops: poller.run() returns
PollerStop ==
    /\ Running
    /\ pc["kube_poller_thread"] = "polling"
    /\ poller' = [poller EXCEPT !.state = "Stopped"]
    /\ Goto("kube_poller_thread", "finished")
    /\ UNCHANGED <<cfg_vars, seq_vars, poller_chan_vars, pool_chan_vars, eval_vars,
                   http_bound, store, events, exit_vars, history, evaluation>>

\* --------------------------------------------------- the worker-pool thread
\* worker_pool.run(): block until the WorkerPoolBootRequest arrives
PoolRecvBootRequest ==
    /\ Running
    /\ pc["wasm_thread"] = "wait_boot"
    /\ worker_pool_bootstrap_req = "sent"
    /\ worker_pool_bootstrap_req' = "received"
    /\ Goto("wasm_thread", "bootstrapping")
    /\ UNCHANGED <<cfg_vars, seq_vars, poller_chan_vars, worker_pool_bootstrap_res,
                   bootstrap_data, eval_vars, http_bound, store, events, exit_vars,
                   history, poller, evaluation>>

\* pool_size workers are spawned, each compiles every policy; success is sent
\* once all signalled ready, any compile or settings failure is sent as the error
PoolBootstrapReply ==
    /\ Running
    /\ pc["wasm_thread"] = "bootstrapping"
    /\ \E res \in {"ok", "err"} :
         /\ worker_pool_bootstrap_res' = res
         /\ worker_queues' = IF res = "ok"
                             THEN [w \in 1..bootstrap_data.pool_size |-> <<>>]
                             ELSE worker_queues
         /\ Goto("wasm_thread", IF res = "ok" THEN "dispatching" ELSE "finished")
    /\ UNCHANGED <<cfg_vars, seq_vars, poller_chan_vars, worker_pool_bootstrap_req,
                   bootstrap_data, api_rx, api_tx_dropped, next_worker, reply,
                   responses, http_bound, store, events, exit_vars, history,
                   dispatch_vars, poller, evaluation>>

\* Requests queued in the inbox or in a worker's queue
Queued ==
    {api_rx[i] : i \in DOMAIN api_rx}
      \cup UNION {{worker_queues[w][i] : i \in DOMAIN worker_queues[w]} :
                    w \in DOMAIN worker_queues}

\* Dropping a queue drops the reply handles of the requests in it
DropQueued(rs) == [r \in DOMAIN reply |-> IF r \in rs THEN "dropped" ELSE reply[r]]

\* the worker-pool thread panics: its receivers and queues are dropped
PoolPanic ==
    /\ Running
    /\ pc["wasm_thread"] \in {"wait_boot", "bootstrapping", "dispatching", "joining"}
    /\ worker_pool_bootstrap_req' = DropBootReq(worker_pool_bootstrap_req)
    /\ worker_pool_bootstrap_res' =
           DropBootRes(worker_pool_bootstrap_req, worker_pool_bootstrap_res,
                       pc["wasm_thread"] = "bootstrapping")
    /\ reply' = DropQueued(Queued)
    /\ api_rx' = <<>>
    /\ worker_queues' = [w \in DOMAIN worker_queues |-> <<>>]
    /\ Goto("wasm_thread", "panicked")
    /\ UNCHANGED <<cfg_vars, seq_vars, poller_chan_vars, bootstrap_data,
                   api_tx_dropped, next_worker, responses,
                   http_bound, store, events, exit_vars, history,
                   dispatch_vars, poller, evaluation>>

\* Round-robin: the worker after w in rotation
Rotate(w, n) == (w % n) + 1

\* A worker's queue is bounded
QueueFull(q) == Len(q) >= WorkerQueueCapacity

\* Mutant of FirstWithRoom: no tie-break, only the chosen worker is tried
FirstWithRoom_NoTieBreak(w, queues) ==
    IF QueueFull(queues[w]) THEN 0 ELSE w

\* Tie-break: the worker tried at attempt k (0 = the chosen worker), and the
\* first worker in rotation from the chosen one whose queue has room, within
\* pool_size attempts; 0 when every queue is full
Attempt(w, k, n) == ((w - 1 + k) % n) + 1
FirstWithRoom(w, queues) ==
    LET n == Len(queues)
        ks == {k \in 0..(n - 1) : ~QueueFull(queues[Attempt(w, k, n)])}
    IN IF ks = {} THEN 0
       ELSE Attempt(w, CHOOSE k \in ks : \A j \in ks : k <= j, n)

\* The oldest request of the inbox goes to worker w; the rotation goes on
\* from the worker after w
Deliver(w) ==
    /\ api_rx' = Tail(api_rx)
    /\ worker_queues' = [worker_queues EXCEPT ![w] = Append(@, Head(api_rx))]
    /\ assigned' = [assigned EXCEPT ![Head(api_rx)] = w]
    /\ next_worker' = Rotate(w, Len(worker_queues))

\* the dispatcher hands the oldest request of the inbox to the chosen worker,
\* or, when its queue is full, to the next worker in rotation that has room
Dispatch ==
    /\ Running
    /\ pc["wasm_thread"] = "dispatching"
    /\ api_rx # <<>>
    /\ blocked_on = 0
    /\ FirstWithRoom(next_worker, worker_queues) # 0
    /\ Deliver(FirstWithRoom(next_worker, worker_queues))
    /\ full_seen' = (full_seen \/ QueueFull(worker_queues[next_worker]))
    /\ UNCHANGED <<cfg_vars, pc, seq_vars, poller_chan_vars, pool_chan_vars,
                   api_tx_dropped, reply, responses, blocked_on,
                   http_bound, store, events, exit_vars, history, poller, evaluation>>

\* every queue is full: the dispatcher blocks on the chosen worker
DispatchBlock ==
    /\ Running
    /\ pc["wasm_thread"] = "dispatching"
    /\ api_rx # <<>>
    /\ blocked_on = 0
    /\ FirstWithRoom(next_worker, worker_queues) = 0
    /\ blocked_on' = next_worker
    /\ full_seen' = TRUE
    /\ UNCHANGED <<cfg_vars, pc, seq_vars, poller_chan_vars, pool_chan_vars,
                   api_rx, api_tx_dropped, worker_queues, next_worker, reply,
                   responses, assigned,
                   http_bound, store, events, exit_vars, history, poller, evaluation>>

\* the worker the dispatcher is blocked on has room again: the request goes
\* to it
DispatchUnblock ==
    /\ Running
    /\ pc["wasm_thread"] = "dispatching"
    /\ blocked_on # 0
    /\ ~QueueFull(worker_queues[blocked_on])
    /\ Deliver(blocked_on)
    /\ blocked_on' = 0
    /\ UNCHANGED <<cfg_vars, pc, seq_vars, poller_chan_vars, pool_chan_vars,
                   api_tx_dropped, reply, responses, full_seen,
                   http_bound, store, events, exit_vars, history, poller, evaluation>>

\* What the worker makes of the reply handle of the request it evaluated: a
\* response (success or error) is sent on it, or it is closed
Respond(r, out) ==
    /\ reply' = [reply EXCEPT ![r] = out]
    /\ responses' = [responses EXCEPT
                       ![r] = IF out = "responded" THEN @ + 1 ELSE @]

\* Mutant of WorkerEvaluate: the request stays in the worker's queue after
\* its reply handle was used
WorkerEvaluate_NotRemoved(w) ==
    /\ Running
    /\ pc["wasm_thread"] \in {"dispatching", "joining"}
    /\ w \in DOMAIN worker_queues
    /\ worker_queues[w] # <<>>
    /\ \E out \in {"responded", "dropped"} : Respond(Head(worker_queues[w]), out)
    /\ UNCHANGED <<cfg_vars, pc, seq_vars, poller_chan_vars, pool_chan_vars,
                   api_rx, api_tx_dropped, worker_queues, next_worker,
                   http_bound, store, events, exit_vars, history,
                   dispatch_vars, poller, evaluation>>

\* worker w: receive -> look up evaluator -> evaluate -> send response
WorkerEvaluate(w) ==
    /\ Running
    /\ pc["wasm_thread"] \in {"dispatching", "joining"}
    /\ w \in DOMAIN worker_queues
    /\ worker_queues[w] # <<>>
    /\ worker_queues' = [worker_queues EXCEPT ![w] = Tail(@)]
    /\ \E out \in {"responded", "dropped"} : Respond(Head(worker_queues[w]), out)
    /\ UNCHANGED <<cfg_vars, pc, seq_vars, poller_chan_vars, pool_chan_vars,
                   api_rx, api_tx_dropped, next_worker,
                   http_bound, store, events, exit_vars, history,
                   dispatch_vars, poller, evaluation>>

\* the inbox is closed (every sender dropped) and drained: the dispatcher ends
PoolInboxClosed ==
    /\ Running
    /\ pc["wasm_thread"] = "dispatching"
    /\ api_tx_dropped
    /\ api_rx = <<>>
    /\ Goto("wasm_thread", "joining")
    /\ UNCHANGED <<cfg_vars, seq_vars, poller_chan_vars, pool_chan_vars, eval_vars,
                   http_bound, store, events, exit_vars, history, poller, evaluation>>

\* the workers have drained their queues and are joined: run() returns
PoolJoinWorkers ==
    /\ Running
    /\ pc["wasm_thread"] = "joining"
    /\ \A w \in DOMAIN worker_queues : worker_queues[w] = <<>>
    /\ Goto("wasm_thread", "finished")
    /\ UNCHANGED <<cfg_vars, seq_vars, poller_chan_vars, pool_chan_vars, eval_vars,
                   http_bound, store, events, exit_vars, history, poller, evaluation>>

\* ------------------------------------------------------------ HTTP surface
\* Mutant of ChannelFull: the channel is unbounded
ChannelFull_Unbounded(q) == FALSE

\* mpsc::channel::<EvalRequest>(32): a send has to wait while 32 requests are
\* in the channel
ChannelFull(q) == Len(q) >= ApiChannelCapacity

\* A handler builds an EvaluationRequest with a fresh reply handle and sends it
\* on api_tx; the send fails when the consumer has terminated (503), and a
\* full channel suspends the handler
HttpRequest(r) ==
    /\ Running
    /\ http_bound
    /\ reply[r] = "unused"
    /\ \A q \in DOMAIN reply : q < r => reply[q] # "unused"
    /\ ~ChannelFull(api_rx)
    /\ IF Terminated("wasm_thread")
       THEN /\ reply' = [reply EXCEPT ![r] = "send_failed"]
            /\ UNCHANGED api_rx
       ELSE /\ reply' = [reply EXCEPT ![r] = "pending"]
            /\ api_rx' = Append(api_rx, r)
    /\ UNCHANGED <<cfg_vars, pc, seq_vars, poller_chan_vars, pool_chan_vars,
                   api_tx_dropped, worker_queues, next_worker, responses,
                   http_bound, store, events, exit_vars, history,
                   dispatch_vars, poller, evaluation>>

\* ------------------------------------------------------------ specification
Next ==
    \/ ReadConfig
    \/ RuntimeNew
    \/ SetupTracing
    \/ NextPolicy
    \/ VerifyKey
    \/ VerifyDone
    \/ FetchPolicy
    \/ VerifyLocalFileChecksum
    \/ SendKubePollerBootRequest
    \/ RecvKubePollerBootstrapRes
    \/ SendWorkerPoolBootRequest
    \/ RecvWorkerPoolBootstrapRes
    \/ NewTlsAcceptor
    \/ RunServer
    \/ ServerEnd
    \/ JoinWasmThread
    \/ JoinKubePollerThread
    \/ ReturnOk
    \/ \E t \in {"main", "kube_poller_thread"} : FatalLog(t)
    \/ \E t \in {"main", "kube_poller_thread"} : FatalFlush(t)
    \/ \E t \in {"main", "kube_poller_thread"} : FatalExit(t)
    \/ PollerNew
    \/ PollerRecvBootRequest
    \/ PollerBootstrapReply
    \/ PollerPanic
    \/ PollerStop
    \/ PoolRecvBootRequest
    \/ PoolBootstrapReply
    \/ PoolPanic
    \/ Dispatch
    \/ DispatchBlock
    \/ DispatchUnblock
    \/ \E w \in 1..MaxWorkers : WorkerEvaluate(w)
    \/ PoolInboxClosed
    \/ PoolJoinWorkers
    \/ \E r \in Requests : HttpRequest(r)

Spec == Init /\ [][Next]_vars

\* The state in which the server serves: the bootstrap of a configuration with
\* no policy, no TLS, nothing enabled and n workers is over, both threads
\* replied success, HTTP is bound, and none of the requests rs is sent yet
Serving(n, rs) ==
    /\ cli = CommandLine(FALSE, <<>>, FALSE, <<>>, 0, FALSE)
    /\ policies = <<>>
    /\ verify_enabled = FALSE
    /\ metrics_enabled = FALSE
    /\ verification_settings = "None"
    /\ verification_keys = 0
    /\ config_error = None
    /\ cert_file = ""
    /\ pool_size = n
    /\ pc = [t \in Threads |->
               IF t = "main" THEN "serving"
               ELSE IF t = "kube_poller_thread" THEN "polling" ELSE "dispatching"]
    /\ policy_idx = 0
    /\ key_idx = 0
    /\ verified_manifest_digest = None
    /\ fetched_policy = NoFetchedPolicy
    /\ kube_poller_bootstrap_req = "received"
    /\ kube_poller_bootstrap_res = "ok"
    /\ worker_pool_bootstrap_req = "received"
    /\ worker_pool_bootstrap_res = "ok"
    /\ bootstrap_data = [policies |-> <<>>, pool_size |-> n]
    /\ api_rx = <<>>
    /\ api_tx_dropped = FALSE
    /\ worker_queues = [w \in 1..n |-> <<>>]
    /\ next_worker = 1
    /\ reply = [r \in rs |-> "unused"]
    /\ responses = [r \in rs |-> 0]
    /\ assigned = [r \in rs |-> 0]
    /\ full_seen = FALSE
    /\ blocked_on = 0
    /\ poller = Polled(NewPoller({"Namespace"}), TRUE)
    /\ evaluation = IdleEvaluation
    /\ http_bound = TRUE
    /\ store = {}
    /\ events = <<>>
    /\ exited = FALSE
    /\ exit_status = 0
    /\ history = <<Step("runtime_new", 0, 0), Step("setup_tracing", 0, 0),
                   Step("download", 0, 0), Step("send_poller_boot", 0, 0),
                   Step("wait_poller_boot", 0, 0), Step("send_pool_boot", 0, 0),
                   Step("wait_pool_boot", 0, 0), Step("tls_acceptor", 0, 0),
                   Step("run_server", 0, 0)>>

\* The evaluation request channel between the HTTP handlers and the
\* dispatcher, with enough requests to fill it and no worker taking any
InitChan == \E n \in 1..MaxWorkers : Serving(n, 1..ChanRequests)
NextChan ==
    \/ \E r \in DOMAIN reply : HttpRequest(r)
    \/ Dispatch
    \/ DispatchBlock
SpecChan == InitChan /\ [][NextChan]_vars

\* The dispatcher and its workers, with requests for several rotations
InitPool == \E n \in 1..MaxWorkers : Serving(n, 1..PoolRequests)
NextPool ==
    \/ \E r \in DOMAIN reply : HttpRequest(r)
    \/ Dispatch
    \/ DispatchBlock
    \/ DispatchUnblock
    \/ \E w \in 1..MaxWorkers : WorkerEvaluate(w)
SpecPool == InitPool /\ [][NextPool]_vars

\* The poller from its start to its stop, with a sequencer that has nothing to
\* download: the bootstrap up to the poller's reply, then the periodic polls
InitPoller ==
    /\ cli = CommandLine(FALSE, <<>>, FALSE, <<>>, 0, FALSE)
    /\ Boot
    /\ policies = <<>>
    /\ cert_file = ""
    /\ pool_size = 1
NextPoller ==
    \/ ReadConfig
    \/ RuntimeNew
    \/ SetupTracing
    \/ NextPolicy
    \/ SendKubePollerBootRequest
    \/ RecvKubePollerBootstrapRes
    \/ \E t \in {"main", "kube_poller_thread"} : FatalLog(t)
    \/ \E t \in {"main", "kube_poller_thread"} : FatalFlush(t)
    \/ \E t \in {"main", "kube_poller_thread"} : FatalExit(t)
    \/ PollerNew
    \/ PollerRecvBootRequest
    \/ PollerBootstrapReply
    \/ Poll
    \/ PollerPanic
    \/ PollerStop
SpecPoller == InitPoller /\ [][NextPoller]_vars

\* The evaluations of a worker of a serving pool
InitEval == \E n \in 1..MaxWorkers : Serving(n, Requests)
NextEval ==
    \/ Evaluate
    \/ EvaluationRespond
SpecEval == InitEval /\ [][NextEval]_vars

\* The fatal exit of the poller thread
PollerFatal ==
    \/ FatalLog("kube_poller_thread")
    \/ FatalFlush("kube_poller_thread")
    \/ FatalExit("kube_poller_thread")

\* The poller thread is scheduled: error!, shutdown_tracer_provider and
\* process::exit do not wait for another thread. Nothing is assumed of the
\* main thread.
FairPollerSpec == Spec /\ WF_<<pc, exited, events>>(PollerFatal)

\* The steps of the main thread: the sequencer and its fatal exit
SeqNext ==
    \/ ReadConfig
    \/ RuntimeNew
    \/ SetupTracing
    \/ NextPolicy
    \/ VerifyKey
    \/ VerifyDone
    \/ FetchPolicy
    \/ VerifyLocalFileChecksum
    \/ SendKubePollerBootRequest
    \/ RecvKubePollerBootstrapRes
    \/ SendWorkerPoolBootRequest
    \/ RecvWorkerPoolBootstrapRes
    \/ NewTlsAcceptor
    \/ RunServer
    \/ FatalLog("main")
    \/ FatalFlush("main")
    \/ FatalExit("main")

\* The main thread is scheduled: rt.block_on runs the bootstrap block, and its
\* two wait loops poll try_recv again after every sleep, as long as it can step.
\* Nothing is assumed of the other threads.
\* Each of these steps changes the position of main or ends the process.
FairSpec == Spec /\ WF_<<pc, exited>>(SeqNext)

\* ------------------------------------------------------------- properties
\* Helpers over the sequencer's history
Completed(name) == \E i \in DOMAIN history : history[i].step = name /\ history[i].ok
FailedStep(name) == \E i \in DOMAIN history : history[i].step = name /\ ~history[i].ok
AnyFailure == \E i \in DOMAIN history : ~history[i].ok
Sent(req) == req \in {"sent", "received"}
AllFetched(ps) ==
    \A i \in DOMAIN ps :
        /\ ps[i].wasm_module_path = LocalPath(ps[i].url)
        /\ ps[i].url \in store

\* C1 -- Startup ordering: whenever the HTTP listener is bound, or has ever been
\* bound, the poller's boot reply and the worker pool's boot reply are both a
\* success; HTTP never serves while a reply is pending, failed or closed.
C1_StartupOrdering ==
    (http_bound \/ Completed("run_server")) =>
        /\ kube_poller_bootstrap_res = "ok"
        /\ worker_pool_bootstrap_res = "ok"

C1_Witness == http_bound /\ reply[1] = "pending"

\* C2 -- The WorkerPoolBootRequest is sent only after the poller replied
\* success: while the poller's reply is pending, an error or closed, the worker
\* pool has received no boot request, has left its wait for none, and no worker
\* queue exists.
C2_PoolBootAfterPollerReady ==
    kube_poller_bootstrap_res # "ok" =>
        /\ ~Sent(worker_pool_bootstrap_req)
        /\ worker_pool_bootstrap_res = "none"
        /\ pc["wasm_thread"] \in {"unspawned", "wait_boot", "panicked"}
        /\ worker_queues = <<>>

C2_Witness ==
    /\ worker_pool_bootstrap_req = "sent"
    /\ pc["wasm_thread"] = "wait_boot"
    /\ kube_poller_bootstrap_res = "ok"

\* C3 -- When a boot request has been sent (and from the end of the download
\* loop on), every policy carries the local path of a module file that was
\* fetched to local storage, and so does the policy set in the worker pool's
\* request; once a fetch has failed the sequencer is on the fatal exit, no boot
\* request was sent and HTTP is not bound.
C3_AllPoliciesFetchedAtBoot ==
    /\ (Completed("download") \/ Sent(kube_poller_bootstrap_req)
          \/ Sent(worker_pool_bootstrap_req)) => AllFetched(policies)
    /\ Sent(worker_pool_bootstrap_req) => AllFetched(bootstrap_data.policies)
    /\ FailedStep("fetch") =>
          /\ pc["main"] \in FatalStates
          /\ ~Sent(kube_poller_bootstrap_req)
          /\ ~Sent(worker_pool_bootstrap_req)
          /\ ~http_bound /\ ~Completed("run_server")

C3_Witness ==
    /\ worker_pool_bootstrap_req = "sent"
    /\ Len(policies) >= 2
    /\ AllFetched(bootstrap_data.policies)

\* What thread t has done of fatal_error so far
FatalEvents(t) == SelectSeq(events, LAMBDA e : e[1] = t)
FatalOrder(t) == <<<<t, "error">>, <<t, "shutdown_tracer_provider">>, <<t, "exit">>>>
IsPrefix(s, t) == Len(s) <= Len(t) /\ \A i \in DOMAIN s : s[i] = t[i]
LastStep == history[Len(history)]

\* C4 -- A failed bootstrap step of the sequencer leads to fatal_error, which
\* logs the error, then flushes the tracer, then exits with status 1, in this
\* order; the failed step is the last step the sequencer executes: from the
\* failure on it runs no step, changes no policy, fetches nothing, sends no boot
\* request and does not bind HTTP.
C4_FatalStateOk ==
    /\ AnyFailure <=> pc["main"] \in FatalStates
    /\ AnyFailure => ~LastStep.ok /\ (\A i \in 1..(Len(history) - 1) : history[i].ok)
    /\ pc["main"] \in FatalStates =>
          FatalEvents("main") =
             CASE pc["main"] = "fatal_error" -> <<>>
               [] pc["main"] = "fatal_logged" -> SubSeq(FatalOrder("main"), 1, 1)
               [] pc["main"] = "fatal_flushed" /\ ~(exited /\ Len(FatalEvents("main")) = 3)
                    -> SubSeq(FatalOrder("main"), 1, 2)
               [] OTHER -> FatalOrder("main")
    /\ (exited /\ Len(FatalEvents("main")) = 3) => exit_status = 1

C4_FatalErrorIsFinal ==
    [](C4_FatalStateOk)
      /\ [][pc["main"] \in FatalStates =>
              /\ pc'["main"] \in FatalStates
              /\ history' = history
              /\ policies' = policies
              /\ store' = store
              /\ http_bound' = FALSE
              /\ (Sent(kube_poller_bootstrap_req') => Sent(kube_poller_bootstrap_req))
              /\ (Sent(worker_pool_bootstrap_req') => Sent(worker_pool_bootstrap_req))]_vars

C4_Witness ==
    /\ exited
    /\ exit_status = 1
    /\ FatalEvents("main") = FatalOrder("main")
    /\ FailedStep("wait_pool_boot")

\* C5 -- With verification enabled, when the fetch of a policy starts the
\* signature of that policy has been verified successfully against every
\* configured key; a failed verification is the sequencer's last step (it is on
\* the fatal exit), so the policy it was about is never fetched.
C5_VerifyAllKeysBeforeFetch ==
    /\ verify_enabled =>
          \A j \in DOMAIN history :
              history[j].step = "fetch" =>
                  \A k \in 1..verification_keys :
                      \E i \in 1..(j - 1) :
                          history[i] = Step("verify", history[j].policy, k)
    /\ (verify_enabled /\ pc["main"] = "fetch") => key_idx = verification_keys
    /\ FailedStep("verify") =>
          /\ LastStep.step = "verify"
          /\ pc["main"] \in FatalStates
          /\ policies[LastStep.policy].url \notin store
          /\ policies[LastStep.policy].wasm_module_path = EmptyPath

C5_Witness ==
    /\ verify_enabled
    /\ verification_keys = 2
    /\ Completed("fetch")
    /\ policy_idx = 2

\* C6 -- With verification enabled a local module path is recorded only after
\* the check of the local file's digest against the verified manifest digest
\* succeeded; the check leaves the sequencer on the fatal exit whenever the two
\* digests differ, without recording the path, and after a failed check no boot
\* request is sent and HTTP is never bound.
C6_ChecksumStateOk ==
    /\ verify_enabled =>
          \A p \in DOMAIN policies :
              policies[p].wasm_module_path # EmptyPath =>
                  \E i \in DOMAIN history :
                      history[i] = Step("verify_local_file_checksum", p, 0)
    /\ FailedStep("verify_local_file_checksum") =>
          /\ pc["main"] \in FatalStates
          /\ policies[LastStep.policy].wasm_module_path = EmptyPath
          /\ ~Sent(kube_poller_bootstrap_req)
          /\ ~Sent(worker_pool_bootstrap_req)
          /\ ~http_bound /\ ~Completed("run_server")

C6_LocalChecksumGate ==
    [](C6_ChecksumStateOk)
      /\ [][(/\ pc["main"] = "verify_local_file_checksum"
             /\ pc'["main"] # "verify_local_file_checksum"
             /\ fetched_policy.digest # verified_manifest_digest)
              => (pc'["main"] = "fatal_error" /\ policies' = policies)]_vars

C6_Witness ==
    /\ pc["main"] = "fatal_flushed"
    /\ exited
    /\ LastStep.step = "verify_local_file_checksum"
    /\ fetched_policy.digest # verified_manifest_digest
    /\ policies[policy_idx].url \in store

\* Number of places (inbox or worker queue slots) that hold request r
Holders(r) ==
    Cardinality({i \in DOMAIN api_rx : api_rx[i] = r})
      + Cardinality({x \in {<<w, i>> : w \in DOMAIN worker_queues, i \in 1..MaxRequests} :
                        x[2] \in DOMAIN worker_queues[x[1]]
                          /\ worker_queues[x[1]][x[2]] = r})

\* C7 -- Exactly-one reply: a request accepted onto the evaluation request
\* channel gets at most one response on its reply handle; while it waits, the
\* request is held exactly once by a live consumer (inbox or one worker queue);
\* once answered or dropped it is held nowhere; and when the consumer thread has
\* terminated no requester is left waiting: every accepted request was answered
\* exactly once or its reply handle was dropped.
C7_ExactlyOneReply ==
    \A r \in Requests :
        /\ responses[r] <= 1
        /\ (reply[r] = "responded") <=> (responses[r] = 1)
        /\ (reply[r] = "pending") <=> (Holders(r) = 1)
        /\ reply[r] # "pending" => Holders(r) = 0
        /\ (reply[r] = "pending" /\ Running) => ~Terminated("wasm_thread")
        /\ (Terminated("wasm_thread") /\ reply[r] # "unused") =>
               reply[r] \in {"responded", "dropped", "send_failed"}

C7_Witness ==
    /\ Terminated("wasm_thread")
    /\ reply[1] = "responded"
    /\ reply[2] = "dropped"

\* C8 (as stated) -- when the sequencer awaits the join of the worker pool it
\* has already awaited the stop of the Kubernetes poller.
C8_PollerJoinedBeforePool ==
    pc["main"] = "join_wasm" => Completed("join_poller")

\* C8 (amended) -- Orderly shutdown ordering: after the HTTP server has stopped
\* and the request inbox is closed, the sequencer awaits the join of the worker
\* pool thread first, and awaits the join of the poller thread only after the
\* worker pool thread has been joined without error.
C8_PoolJoinedBeforePoller ==
    /\ pc["main"] = "join_wasm" =>
          /\ Completed("server_end") /\ api_tx_dropped /\ ~http_bound
          /\ ~Completed("join_poller")
    /\ (pc["main"] = "join_poller" \/ Completed("join_poller")) =>
          /\ Completed("join_wasm")
          /\ pc["wasm_thread"] = "finished"

C8_Witness ==
    /\ pc["main"] = "join_poller"
    /\ pc["kube_poller_thread"] = "polling"
    /\ pc["wasm_thread"] = "finished"

\* C9 -- On an orderly shutdown (exit status 0) the tracer has been flushed
\* after both threads were joined and before the process exits.
C9_TracerFlushedOnOrderlyExit ==
    (exited /\ exit_status = 0) =>
        \E i \in DOMAIN events : events[i] = <<"main", "shutdown_tracer_provider">>

\* C10 -- Exit status: the process ends with status 0 only when the HTTP server
\* has ended and both the worker-pool thread and the poller thread were joined
\* without error; when a step of the sequencer failed (a join that reports a
\* panic included) or the poller thread took the fatal exit, the process never
\* ends with status 0: it ends with status 1.
C10_ExitStatus ==
    /\ (exited /\ exit_status = 0) =>
          /\ Completed("server_end")
          /\ Completed("join_wasm")
          /\ Completed("join_poller")
          /\ pc["wasm_thread"] = "finished"
          /\ pc["kube_poller_thread"] = "finished"
          /\ ~AnyFailure
    /\ (exited /\ (AnyFailure \/ pc["kube_poller_thread"] \in FatalStates
                     \/ pc["wasm_thread"] = "panicked"
                     \/ pc["kube_poller_thread"] = "panicked")) =>
          exit_status = 1
    /\ (exited /\ config_error # None) => exit_status \in {1, 101}
    /\ exited => exit_status \in {0, 1, 101}

C10_Witness ==
    /\ exited
    /\ exit_status = 0
    /\ reply[1] = "responded"

\* ---------------------------------------------------------------- C11
\* C11: when ignore_kubernetes_connection_failure is set, an error reply of the
\* poller to its boot request is not fatal: the sequencer does not fail its
\* wait for the poller and goes on to the worker pool boot request.
C11_IgnoredPollerFailureNotFatal ==
    (cli.ignore_kubernetes_connection_failure /\ kube_poller_bootstrap_res = "err")
        => ~FailedStep("wait_poller_boot")

\* ---------------------------------------------------------------- C12
Flushed == \E i \in DOMAIN events : events[i][2] = "shutdown_tracer_provider"

\* C12 (as stated): every bootstrap error, the configuration errors found
\* before the runtime starts included, ends the process through a fatal exit
\* that flushes the tracer before terminating: no process ends with a non-zero
\* status without a tracer flush before it.
C12_EveryErrorExitFlushes ==
    (exited /\ exit_status # 0) => Flushed

\* C12 (amended): a bootstrap error from Runtime::new on ends the process
\* through fatal_error: error log, tracer flush, exit with status 1. A
\* configuration error found while the command line is read, before the runtime
\* starts, ends the process at once with a non-zero status (101 for the number
\* of workers, 1 for the others): nothing is flushed, no thread is spawned and no
\* bootstrap step runs.
C12_ErrorExits ==
    /\ config_error # None =>
          /\ exited
          /\ exit_status = IF config_error = "workers" THEN 101 ELSE 1
          /\ ~Flushed
          /\ events = <<<<"main", "exit">>>>
          /\ history = <<>>
          /\ \A t \in Threads : pc[t] = (IF t = "main" THEN "read_config" ELSE "unspawned")
    /\ (exited /\ AnyFailure) =>
          /\ config_error = None
          /\ exit_status = 1
          /\ Flushed
          /\ \/ FatalEvents("main") = FatalOrder("main")
             \/ FatalEvents("kube_poller_thread") = FatalOrder("kube_poller_thread")

C12_Witness ==
    /\ exited
    /\ config_error = "workers"
    /\ exit_status = 101
    /\ cli.enable_verification

\* ---------------------------------------------------------------- C17
\* The reading of the configuration alone, over every command line and
\* environment
InitCli == cli \in AllCommandLines /\ Boot /\ poller.resources # {}
NextCli == ReadConfig
SpecCli == InitCli /\ [][NextCli]_vars

ConfiguredApartFromPath(ps) ==
    [i \in DOMAIN ps |-> [ps[i] EXCEPT !.wasm_module_path = EmptyPath]]
        = PolicySet(Len(ps))

\* C18: the fetch phase changes only the local module path of each policy. The
\* policies held by the sequencer, and those handed to the worker pool in the
\* WorkerPoolBootRequest, have the names and the other fields read from the
\* configuration; no step adds or removes a policy; once the boot request is
\* sent, neither the policy set nor the request's copy changes any more.
C18_FetchChangesOnlyPath ==
    [](/\ ConfiguredApartFromPath(policies)
       /\ Sent(worker_pool_bootstrap_req) =>
             /\ ConfiguredApartFromPath(bootstrap_data.policies)
             /\ bootstrap_data.policies = policies)
      /\ [][/\ Len(policies') = Len(policies)
            /\ \A i \in DOMAIN policies :
                  policies'[i] # policies[i] =>
                     /\ pc["main"] \in {"fetch", "verify_local_file_checksum"}
                     /\ i = policy_idx
                     /\ policies'[i] =
                           [policies[i] EXCEPT !.wasm_module_path = LocalPath(policies[i].url)]
            /\ Sent(worker_pool_bootstrap_req) =>
                  /\ policies' = policies
                  /\ bootstrap_data' = bootstrap_data]_vars

C18_Witness ==
    /\ pc["main"] = "serving"
    /\ Sent(worker_pool_bootstrap_req)
    /\ Len(bootstrap_data.policies) = MaxPolicies
    /\ \A i \in DOMAIN bootstrap_data.policies :
          /\ bootstrap_data.policies[i].wasm_module_path = LocalPath(Urls[i])
          /\ bootstrap_data.policies[i].url = Urls[i]

PastPollerBoot ==
    Completed("wait_poller_boot") \/ Sent(worker_pool_bootstrap_req)
PastPoolBoot ==
    Completed("wait_pool_boot") \/ Completed("tls_acceptor") \/ http_bound

C20_DeadPeerStateOk ==
    /\ FailedStep("send_poller_boot") =>
          kube_poller_bootstrap_req = "rx_dropped" /\ pc["main"] \in FatalStates
    /\ FailedStep("send_pool_boot") =>
          worker_pool_bootstrap_req = "rx_dropped" /\ pc["main"] \in FatalStates
    /\ (kube_poller_bootstrap_req = "rx_dropped"
          \/ kube_poller_bootstrap_res = "closed") => ~PastPollerBoot
    /\ (worker_pool_bootstrap_req = "rx_dropped"
          \/ worker_pool_bootstrap_res = "closed") => ~PastPoolBoot

\* C20: the sequencer neither waits forever on a dead peer nor proceeds past
\* it. If the poller or the worker pool thread dropped its boot-request
\* receiver before the request is sent, or dropped the reply handle without
\* replying, the sequencer never executes the following step and the process
\* ends with a non-zero status once the sequencer is at the send or in the wait
\* for that peer. If the peer replied success, the sequencer
\* goes on to the next step. While the reply is pending, the sequencer stays
\* in its wait: no step of its own leaves it.
C20_NoWaitOnDeadPeer ==
    /\ [](C20_DeadPeerStateOk)
    /\ [][/\ (pc["main"] = "wait_poller_boot" /\ kube_poller_bootstrap_res = "empty")
                => pc'["main"] = "wait_poller_boot"
          /\ (pc["main"] = "wait_pool_boot" /\ worker_pool_bootstrap_res = "empty")
                => pc'["main"] = "wait_pool_boot"]_pc
    /\ (\/ pc["main"] = "send_poller_boot" /\ kube_poller_bootstrap_req = "rx_dropped"
        \/ pc["main"] = "wait_poller_boot" /\ kube_poller_bootstrap_res = "closed"
        \/ pc["main"] = "send_pool_boot" /\ worker_pool_bootstrap_req = "rx_dropped"
        \/ pc["main"] = "wait_pool_boot" /\ worker_pool_bootstrap_res = "closed")
          ~> (exited /\ exit_status # 0)
    /\ (pc["main"] = "wait_poller_boot" /\ kube_poller_bootstrap_res = "ok")
          ~> (pc["main"] = "send_pool_boot")
    /\ (pc["main"] = "wait_pool_boot" /\ worker_pool_bootstrap_res = "ok")
          ~> (pc["main"] = "tls_acceptor")

C20_Witness ==
    /\ exited
    /\ exit_status = 1
    /\ FailedStep("wait_pool_boot")
    /\ worker_pool_bootstrap_res = "closed"
    /\ pc["wasm_thread"] = "panicked"
    /\ kube_poller_bootstrap_res = "ok"

\* ---------------------------------------------------------------- C13
\* The requests sent so far and those the dispatcher has taken from the channel
SentRequests == {r \in DOMAIN reply : reply[r] # "unused"}
TakenRequests == {r \in DOMAIN assigned : assigned[r] # 0}

C13_ChannelStateOk ==
    /\ Len(api_rx) <= ApiChannelCapacity
    \* requests are sent in the order of their ids: the channel holds, in send
    \* order, exactly the requests sent and not yet taken, and those taken are
    \* the oldest ones
    /\ SentRequests = 1..Cardinality(SentRequests)
    /\ TakenRequests = 1..Cardinality(TakenRequests)
    /\ api_rx = [i \in 1..(Cardinality(SentRequests) - Cardinality(TakenRequests))
                    |-> Cardinality(TakenRequests) + i]
    /\ \A r \in SentRequests : reply[r] = "pending"
    \* a full channel suspends every producer; a channel with room suspends none
    /\ Len(api_rx) >= ApiChannelCapacity =>
          \A r \in DOMAIN reply : ~ENABLED HttpRequest(r)
    /\ (Len(api_rx) < ApiChannelCapacity /\ SentRequests # DOMAIN reply) =>
          ENABLED HttpRequest(Cardinality(SentRequests) + 1)

\* C13: the evaluation request channel is a bounded FIFO of capacity 32. It
\* never holds more than 32 requests; while it holds 32, no producer can send,
\* and a producer can send again once the consumer has taken a request; no
\* request in it is dropped or overwritten; the consumer takes the requests in
\* the order they were sent.
C13_BoundedFifo ==
    /\ [](C13_ChannelStateOk)
    /\ [][api_rx' # api_rx =>
            \/ api_rx # <<>> /\ api_rx' = Tail(api_rx)
            \/ /\ Len(api_rx) < ApiChannelCapacity
               /\ \E r \in DOMAIN reply : api_rx' = Append(api_rx, r)]_vars

C13_Witness ==
    /\ Len(api_rx) = 32
    /\ TakenRequests = {1}
    /\ reply[33] = "pending"
    /\ reply[34] = "unused"
    /\ ~ENABLED HttpRequest(34)

\* ---------------------------------------------------------------- C14
\* How many times request r is held by the inbox and the worker queues
Held(r) ==
    Cardinality({i \in DOMAIN api_rx : api_rx[i] = r})
      + Cardinality({x \in {<<w, i>> : w \in DOMAIN worker_queues,
                                       i \in 1..WorkerQueueCapacity} :
                        x[2] \in DOMAIN worker_queues[x[1]]
                          /\ worker_queues[x[1]][x[2]] = r})
AllQueuesFull ==
    \A w \in DOMAIN worker_queues : Len(worker_queues[w]) >= WorkerQueueCapacity
HandledBy(w) == {r \in DOMAIN assigned : assigned[r] = w}

C14_DispatchStateOk ==
    /\ \A w \in DOMAIN worker_queues :
          /\ Len(worker_queues[w]) <= WorkerQueueCapacity
          /\ \A i \in DOMAIN worker_queues[w] : assigned[worker_queues[w][i]] = w
    \* no request is lost or held twice
    /\ \A r \in DOMAIN reply :
          /\ reply[r] = "pending" <=> Held(r) = 1
          /\ reply[r] # "pending" => Held(r) = 0
          /\ (reply[r] \in {"responded", "dropped"}) => assigned[r] # 0
          /\ assigned[r] \in 0..pool_size
    \* while no queue was found full, the rotation is exact: request r goes to
    \* worker ((r - 1) mod N) + 1, so M x N requests give each worker M
    /\ ~full_seen =>
          /\ \A r \in TakenRequests : assigned[r] = ((r - 1) % pool_size) + 1
          /\ \A m \in 0..PoolRequests :
                Cardinality(TakenRequests) = m * pool_size =>
                    \A w \in 1..pool_size : Cardinality(HandledBy(w)) = m
    /\ blocked_on # 0 => full_seen /\ api_rx # <<>>

\* C14: round-robin dispatch with tie-break. The dispatcher takes the requests
\* of the inbox in order. A request goes to the chosen worker of the rotation,
\* or, when that worker's bounded queue is full, to the first worker after it in
\* rotation that has room, within pool_size attempts; when every queue is full
\* nothing is dispatched and the dispatcher blocks on the chosen worker, which
\* then gets the request. While no queue was found full, M x N requests over N
\* workers give each worker exactly M. No request is lost or given to two
\* workers.
C14_RoundRobinTieBreak ==
    /\ [](C14_DispatchStateOk)
    /\ [][/\ assigned' # assigned =>
               /\ api_rx # <<>>
               /\ api_rx' = Tail(api_rx)
               /\ \E w \in 1..pool_size :
                     /\ assigned' = [assigned EXCEPT ![Head(api_rx)] = w]
                     /\ assigned[Head(api_rx)] = 0
                     /\ worker_queues' =
                           [worker_queues EXCEPT ![w] = Append(@, Head(api_rx))]
                     /\ Len(worker_queues[w]) < WorkerQueueCapacity
                     /\ IF blocked_on # 0
                        THEN w = blocked_on
                        ELSE \E k \in 0..(pool_size - 1) :
                               /\ w = ((next_worker - 1 + k) % pool_size) + 1
                               /\ \A j \in 0..(k - 1) :
                                     Len(worker_queues[((next_worker - 1 + j) % pool_size) + 1])
                                        >= WorkerQueueCapacity
                     /\ next_worker' = (w % pool_size) + 1
          /\ (AllQueuesFull \/ (blocked_on # 0 /\ blocked_on' # 0)) => assigned' = assigned
          /\ (blocked_on = 0 /\ blocked_on' # 0) =>
                AllQueuesFull /\ blocked_on' = next_worker]_vars

C14_Witness ==
    /\ pool_size = 2
    /\ assigned[3] = 2
    /\ assigned[4] = 2
    /\ blocked_on = 0
    /\ reply[4] = "responded"

\* ---------------------------------------------------------------- C16
C16_PollerStateOk ==
    /\ poller.state \in {"Starting", "Ready", "Degraded", "Stopped"}
    /\ poller.state = "Starting" =>
          /\ poller.snapshot = 0
          /\ kube_poller_bootstrap_res # "ok"
    \* Ready is reached only after a first successful poll, or after the first
    \* poll attempt when there is nothing to list
    /\ poller.state \in {"Ready", "Degraded"} =>
          /\ poller.polls >= 1
          /\ poller.snapshot >= 1 \/ poller.resources = {}
          /\ pc["kube_poller_thread"] = "polling"
    /\ poller.state = "Ready" => poller.failures < 5
    /\ poller.state = "Degraded" => poller.failures >= 5 /\ poller.snapshot >= 1
    /\ Terminated("kube_poller_thread") => poller.state = "Stopped"

\* C16: the poller starts in Starting; it becomes Ready only by its first
\* successful poll (with an empty resource set the first attempt succeeds); from
\* then on it moves between Ready and Degraded only, Degraded exactly when 5
\* polls in a row have failed, each failed poll retaining the previous snapshot
\* and a successful poll publishing a new one and making it Ready again; Stopped
\* is terminal and Starting is never entered again.
C16_PollerLifecycle ==
    /\ poller.state = "Starting"
    /\ [](C16_PollerStateOk)
    /\ [][/\ poller'.state # poller.state =>
               <<poller.state, poller'.state>> \in
                   {<<"Starting", "Ready">>, <<"Starting", "Stopped">>,
                    <<"Ready", "Degraded">>, <<"Degraded", "Ready">>,
                    <<"Ready", "Stopped">>, <<"Degraded", "Stopped">>}
          /\ (poller.state = "Starting" /\ poller'.state = "Ready") =>
               /\ poller'.polls = 1
               /\ poller'.snapshot = 1
               /\ kube_poller_bootstrap_res' = "ok"
          /\ poller'.failures > poller.failures =>
               /\ poller'.failures = poller.failures + 1
               /\ poller'.snapshot = poller.snapshot
               /\ poller.resources # {}
          /\ poller'.snapshot # poller.snapshot =>
               /\ poller'.snapshot = poller.snapshot + 1
               /\ poller'.failures = 0
               /\ poller'.state = "Ready"
          /\ (poller.state = "Ready" /\ poller'.state = "Degraded") =>
               /\ poller.failures = 4
               /\ poller'.failures = 5
          /\ poller'.failures < poller.failures => poller'.snapshot # poller.snapshot
          /\ poller'.resources = poller.resources]_vars

C16_Witness ==
    /\ poller.state = "Ready"
    /\ poller.polls = 7
    /\ poller.failures = 0
    /\ poller.snapshot = 2
    /\ pc["kube_poller_thread"] = "polling"

\* ---------------------------------------------------------------- C15
\* C15: mutation gating. No evaluation response carries a patch unless
\* allowed_to_mutate is true for its policy: a patch returned by a policy that
\* is not allowed to mutate is stripped, and the request is failed with
\* policy_misbehavior (in protect mode, a denial). No response produced in
\* monitor mode carries a non-empty patch.
C15_MutationGating ==
    evaluation.stage = "responded" =>
        /\ evaluation.response.patch # <<>> =>
              /\ evaluation.policy.allowed_to_mutate = "Some(true)"
              /\ evaluation.policy.policy_mode = "protect"
              /\ evaluation.response.patch = evaluation.raw.patch
        /\ (evaluation.raw.patch # <<>>
              /\ evaluation.policy.allowed_to_mutate \in {"None", "Some(false)"}) =>
              /\ evaluation.response.patch = <<>>
              /\ evaluation.policy.policy_mode = "protect" =>
                    /\ ~evaluation.response.allowed
                    /\ evaluation.response.code = "policy_misbehavior"
              /\ evaluation.policy.policy_mode = "monitor" =>
                    evaluation.response.audit = "deny"
        /\ evaluation.policy.policy_mode = "monitor" =>
              evaluation.response.patch = <<>>

C15_Witness ==
    /\ evaluation.stage = "responded"
    /\ evaluation.policy = [policy_mode |-> "protect", allowed_to_mutate |-> "None"]
    /\ evaluation.raw.allowed
    /\ Len(evaluation.raw.patch) = 2
    /\ evaluation.response = Response(FALSE, <<>>, "policy_misbehavior", "")

\* ---------------------------------------------------------------- C21
C21_InboxStateOk ==
    /\ http_bound =>
          /\ kube_poller_bootstrap_res = "ok"
          /\ worker_pool_bootstrap_res = "ok"
    /\ worker_pool_bootstrap_res # "ok" =>
          /\ api_rx = <<>>
          /\ \A r \in DOMAIN reply : reply[r] = "unused" /\ assigned[r] = 0
          /\ \A w \in DOMAIN worker_queues : worker_queues[w] = <<>>
          /\ ~http_bound
          /\ ~Completed("run_server")

\* C21: api_tx is handed to the HTTP server only, and the server runs only
\* after both boot replies were a success. So while the worker pool has not
\* replied success to its boot request the inbox is empty and no request was
\* sent; a request enters the inbox only while HTTP is bound; and the worker
\* pool takes a request from the inbox only after its success reply.
C21_NoRequestBeforePoolReady ==
    /\ [](C21_InboxStateOk)
    /\ [][/\ Len(api_rx') > Len(api_rx) =>
               /\ http_bound
               /\ Completed("run_server")
               /\ worker_pool_bootstrap_res = "ok"
               /\ kube_poller_bootstrap_res = "ok"
          /\ assigned' # assigned =>
               /\ worker_pool_bootstrap_res = "ok"
               /\ pc["wasm_thread"] = "dispatching"]_vars

C21_Witness ==
    /\ pc["wasm_thread"] = "dispatching"
    /\ worker_pool_bootstrap_res = "ok"
    /\ assigned[1] = 1
    /\ reply[1] = "pending"
    /\ api_rx = <<2>>
    /\ http_bound

\* ---------------------------------------------------------------- C22
PollerInitFailed == pc["kube_poller_thread"] \in FatalStates

C22_PollerFatalStateOk ==
    /\ pc["kube_poller_thread"] = "new" => ~AnyFailure \/ pc["main"] \in FatalStates
    /\ PollerInitFailed =>
          /\ ~http_bound
          /\ ~Completed("run_server")
          /\ ~Completed("wait_poller_boot")
          /\ kube_poller_bootstrap_res \in {"none", "closed"}
          /\ ~Sent(worker_pool_bootstrap_req)
          /\ IsPrefix(FatalEvents("kube_poller_thread"), FatalOrder("kube_poller_thread"))
          /\ exited => exit_status = 1
    /\ FatalEvents("kube_poller_thread") # <<>> => PollerInitFailed
    /\ (exited /\ FatalEvents("kube_poller_thread") = FatalOrder("kube_poller_thread")) =>
          exit_status = 1

\* C22: the poller thread runs next to the sequencer from before the runtime
\* is created. When Poller::new fails, the poller thread takes the fatal exit
\* (error log, tracer flush, exit) and the whole process ends with status 1, in
\* whatever phase the sequencer is; from the failure on HTTP is never bound, the
\* sequencer gets no success reply from the poller and sends no worker pool boot
\* request.
C22_PollerInitFailureIsFatal ==
    /\ [](C22_PollerFatalStateOk)
    /\ [][PollerInitFailed =>
             /\ pc'["kube_poller_thread"] \in FatalStates
             /\ ~http_bound']_<<pc, http_bound>>
    /\ PollerInitFailed ~> (exited /\ exit_status = 1)

C22_Witness ==
    /\ exited
    /\ exit_status = 1
    /\ FatalEvents("kube_poller_thread") = FatalOrder("kube_poller_thread")
    /\ FatalEvents("main") = <<>>
    /\ pc["main"] = "fetch"
    /\ policy_idx = 2

====
